---- MODULE Spec2Model ----
(***************************************************************************)
(* State-machine model of the auth_service repository: the user store      *)
(* (UserRepository over the users table), the AuthService engine           *)
(* (register / authenticate / login / refresh / validate) and the          *)
(* get_current_user dependency that guards /auth/me.                       *)
(*                                                                         *)
(* SecurityUtils (app/utils/security.py: hashing and the token codec) is    *)
(* modelled from the design specification, sections 4.1 and 4.2.           *)
(***************************************************************************)
EXTENDS Integers, Sequences, FiniteSets, TLC

(* ------------------------------ bounds -------------------------------- *)

\* Rows the users table may hold (two unique emails keep it below this).
MaxUsers == 3
\* Last instant of the clock.
MaxTime == 3
\* Token pairs that may be outstanding.
MaxPairs == 1

\* One clock tick is one access-token lifetime (settings default: 15 minutes);
\* the refresh lifetime (default: 7 days) is kept longer than the access one.
access_token_expire == 1
refresh_token_expire == 2

\* Request slots: register_user calls that may be in flight together.
Procs == {1, 2}
\* The slot used when registrations arrive one at a time.
Slots == {1}
Emails == {"a@x.com", "b@x.com"}
Usernames == {"alice", "bob"}
Passwords == {"password123", "hunter2hunter2"}
Salts == {"s1"}
\* Row identifiers a caller may name: the two that can be stored and one
\* that never is.
UserIds == {1, 2, 3}
\* The UserCreate bodies sent when registrations arrive one at a time.
SeqRegInputs ==
    {[email |-> "a@x.com", username |-> "alice", password |-> "password123"],
     [email |-> "b@x.com", username |-> "bob", password |-> "hunter2hunter2"]}
\* The UserCreate bodies sent when registrations race.
RegInputs ==
    {[email |-> "a@x.com", username |-> "alice", password |-> "password123"],
     [email |-> "a@x.com", username |-> "bob", password |-> "password123"],
     [email |-> "b@x.com", username |-> "alice", password |-> "hunter2hunter2"],
     [email |-> "b@x.com", username |-> "bob", password |-> "hunter2hunter2"]}

(* ------------------------------ values -------------------------------- *)

\* str(uuid) and a string that is no well-formed identifier.
StrOfUuid(id) == [kind |-> "uuid", val |-> id]
NoSub == [kind |-> "none", val |-> 0]

NoUser == 0
NoTok == [sub |-> NoSub, type |-> "none", exp |-> 0, sig |-> "none"]
NoHttp == [status |-> 0, detail |-> "", header |-> ""]

VARIABLES users, req, now, issued, last

vars == <<users, req, now, issued, last>>

(* ------------------- SecurityUtils (modelled from the spec) ------------ *)

\* hash: a salted digest; the salt is fresh per call, the password is not
\* recoverable by the engine, only comparable through verify_password.
hash_password(password, salt) == [salt |-> salt, pw |-> password]

\* verify: true exactly when the digest was made from this password.
verify_password(password, digest) == digest.pw = password

\* encode: expiry is computed at encode time from the clock and the lifetime.
create_access_token(data, t) ==
    [sub |-> data.sub, type |-> "access", exp |-> t + access_token_expire, sig |-> "ok"]

create_refresh_token(data, t) ==
    [sub |-> data.sub, type |-> "refresh", exp |-> t + refresh_token_expire, sig |-> "ok"]

\* jose's jwt.decode: the signature is verified first; only a token whose
\* signature verifies has its exp claim compared with the clock.
SigFailed == "Signature verification failed."
SigExpired == "Signature has expired."

jwt_decode(token, t) ==
    IF token.sig # "ok"
    THEN [ok |-> FALSE, jwterror |-> SigFailed, payload |-> NoTok]
    ELSE IF token.exp < t
    THEN [ok |-> FALSE, jwterror |-> SigExpired, payload |-> NoTok]
    ELSE [ok |-> TRUE, jwterror |-> "", payload |-> token]

decode_token(token, t) == jwt_decode(token, t)

(* --------------------------- UserRepository ---------------------------- *)

NoRow == [id |-> NoUser, email |-> "", username |-> "",
          hashed_password |-> [salt |-> "", pw |-> ""], is_active |-> FALSE]

Rows(us) == {us[i] : i \in 1..Len(us)}

\* Variant: the lookup sees active rows only.
exists_by_email_active(us, email) == \E r \in Rows(us) : r.email = email /\ r.is_active

exists_by_email(us, email) == \E r \in Rows(us) : r.email = email

exists_by_username(us, username) == \E r \in Rows(us) : r.username = username

get_by_email(us, email) ==
    IF \E r \in Rows(us) : r.email = email
    THEN CHOOSE r \in Rows(us) : r.email = email
    ELSE NoRow

\* uuid.UUID(user_id) raises ValueError for a string that is no identifier.
UuidWellFormed(sid) == sid.kind = "uuid"

get_by_id(us, sid) ==
    IF \E r \in Rows(us) : r.id = sid.val
    THEN CHOOSE r \in Rows(us) : r.id = sid.val
    ELSE NoRow

\* The unique constraints of the users table (email, username), enforced by
\* the store when the insert is committed.
UniqueViolation(us, user_data) ==
    \/ \E r \in Rows(us) : r.email = user_data.email
    \/ \E r \in Rows(us) : r.username = user_data.username

\* Variant: the table has no unique constraint, every insert commits.
create_no_unique(us, user_data) ==
    [ok |-> TRUE,
     users |-> Append(us, [id |-> Len(us) + 1,
                           email |-> user_data.email,
                           username |-> user_data.username,
                           hashed_password |-> user_data.hashed_password,
                           is_active |-> user_data.is_active])]

\* create: the row gets a fresh id (uuid4), here the next row number.
create(us, user_data) ==
    IF UniqueViolation(us, user_data)
    THEN [ok |-> FALSE, users |-> us]
    ELSE [ok |-> TRUE,
          users |-> Append(us, [id |-> Len(us) + 1,
                                email |-> user_data.email,
                                username |-> user_data.username,
                                hashed_password |-> user_data.hashed_password,
                                is_active |-> user_data.is_active])]

\* delete: a soft delete, is_active := False on the row with that id.
\* Variant: the row is removed.
delete_hard(us, id) ==
    IF \E i \in 1..Len(us) : us[i].id = id
    THEN [ok |-> TRUE, users |-> SelectSeq(us, LAMBDA row : row.id # id)]
    ELSE [ok |-> FALSE, users |-> us]

delete(us, id) ==
    IF \E i \in 1..Len(us) : us[i].id = id
    THEN [ok |-> TRUE,
          users |-> [i \in 1..Len(us) |->
                        IF us[i].id = id THEN [us[i] EXCEPT !.is_active = FALSE]
                        ELSE us[i]]]
    ELSE [ok |-> FALSE, users |-> us]

\* update: every key of user_data that names an attribute of the row is
\* set on it (hasattr/setattr), then the change is committed; the unique
\* constraints are enforced at the commit.
update(us, id, user_data) ==
    IF ~\E i \in 1..Len(us) : us[i].id = id
    THEN [err |-> "UserNotFoundError", users |-> us]
    ELSE LET changed(row) ==
                [f \in DOMAIN row |->
                    IF f \in DOMAIN user_data THEN user_data[f] ELSE row[f]]
             after == [i \in 1..Len(us) |->
                         IF us[i].id = id THEN changed(us[i]) ELSE us[i]]
         IN IF \E i, j \in 1..Len(after) :
                  /\ i # j
                  /\ (after[i].email = after[j].email
                        \/ after[i].username = after[j].username)
            THEN [err |-> "IntegrityError", users |-> us]
            ELSE [err |-> "none", users |-> after]

(* ---------------------------- get_http_exception ----------------------- *)

\* Variant: the detail is the text of the exception raised.
get_http_exception_str(exc) ==
    CASE exc.kind \in {"AuthenticationError", "InvalidTokenError", "TokenExpiredError"} ->
            [status |-> 401, detail |-> exc.msg, header |-> "Bearer"]
      [] exc.kind = "AuthorizationError" ->
            [status |-> 403, detail |-> exc.msg, header |-> ""]
      [] exc.kind = "UserAlreadyExistsError" ->
            [status |-> 409, detail |-> exc.msg, header |-> ""]
      [] exc.kind = "UserNotFoundError" ->
            [status |-> 404, detail |-> exc.msg, header |-> ""]
      [] OTHER ->
            [status |-> 500, detail |-> "Internal server error", header |-> ""]

\* exc is the exception raised: its class and its message. The mapping is
\* looked up by type(exc) alone.
get_http_exception(exc) ==
    CASE exc.kind = "AuthenticationError" ->
            [status |-> 401, detail |-> "Authentication failed", header |-> "Bearer"]
      [] exc.kind = "AuthorizationError" ->
            [status |-> 403, detail |-> "Not enough permissions", header |-> ""]
      [] exc.kind = "UserAlreadyExistsError" ->
            [status |-> 409, detail |-> "User already exists", header |-> ""]
      [] exc.kind = "UserNotFoundError" ->
            [status |-> 404, detail |-> "User not found", header |-> ""]
      [] exc.kind = "InvalidTokenError" ->
            [status |-> 401, detail |-> "Invalid token", header |-> "Bearer"]
      [] exc.kind = "TokenExpiredError" ->
            [status |-> 401, detail |-> "Token has expired", header |-> "Bearer"]
      [] OTHER ->
            [status |-> 500, detail |-> "Internal server error", header |-> ""]

\* The engine's own error kinds (subclasses of AuthServiceException).
AuthServiceException ==
    {"AuthenticationError", "AuthorizationError", "UserAlreadyExistsError",
     "UserNotFoundError", "InvalidTokenError", "TokenExpiredError"}

(* ------------------------------ AuthService ---------------------------- *)

\* What one engine call gives back: the error kind raised ("none" on success)
\* with its message, and on success the tokens minted, the payload returned
\* or the user resolved.
Res(err, msg, minted, payload, user) ==
    [err |-> err, msg |-> msg, minted |-> minted, payload |-> payload, user |-> user]

Raise(err, msg) == Res(err, msg, {}, NoTok, NoUser)

\* Variant: the lookup failure has a message of its own.
authenticate_user_leaky(us, email, password) ==
    LET user == get_by_email(us, email) IN
    IF user = NoRow
    THEN Raise("AuthenticationError", "Unknown email")
    ELSE IF ~user.is_active
    THEN Raise("AuthenticationError", "User account is inactive")
    ELSE IF ~verify_password(password, user.hashed_password)
    THEN Raise("AuthenticationError", "Invalid email or password")
    ELSE Res("none", "", {}, NoTok, user.id)

\* Variant: is_active is not looked at.
authenticate_user_no_active(us, email, password) ==
    LET user == get_by_email(us, email) IN
    IF user = NoRow
    THEN Raise("AuthenticationError", "Invalid email or password")
    ELSE IF ~verify_password(password, user.hashed_password)
    THEN Raise("AuthenticationError", "Invalid email or password")
    ELSE Res("none", "", {}, NoTok, user.id)

\* Variant: the password test is inverted.
authenticate_user_inverted(us, email, password) ==
    LET user == get_by_email(us, email) IN
    IF user = NoRow
    THEN Raise("AuthenticationError", "Invalid email or password")
    ELSE IF ~user.is_active
    THEN Raise("AuthenticationError", "User account is inactive")
    ELSE IF verify_password(password, user.hashed_password)
    THEN Raise("AuthenticationError", "Invalid email or password")
    ELSE Res("none", "", {}, NoTok, user.id)

authenticate_user(us, email, password) ==
    LET user == get_by_email(us, email) IN
    IF user = NoRow
    THEN Raise("AuthenticationError", "Invalid email or password")
    ELSE IF ~user.is_active
    THEN Raise("AuthenticationError", "User account is inactive")
    ELSE IF ~verify_password(password, user.hashed_password)
    THEN Raise("AuthenticationError", "Invalid email or password")
    ELSE Res("none", "", {}, NoTok, user.id)

\* Variant: the refresh token is made by the access-token constructor.
login_user_two_access(us, email, password, t) ==
    LET auth == authenticate_user(us, email, password) IN
    IF auth.err # "none"
    THEN auth
    ELSE LET token_data == [sub |-> StrOfUuid(auth.user)] IN
         Res("none", "",
             {create_access_token(token_data, t), create_access_token(token_data, t)},
             NoTok, auth.user)

login_user(us, email, password, t) ==
    LET auth == authenticate_user(us, email, password) IN
    IF auth.err # "none"
    THEN auth
    ELSE LET token_data == [sub |-> StrOfUuid(auth.user)] IN
         Res("none", "",
             {create_access_token(token_data, t), create_refresh_token(token_data, t)},
             NoTok, auth.user)

\* "expired" in str(e).lower()
ContainsExpired(jwterror) == jwterror = SigExpired

\* Variant: every JWTError is reported as an invalid token.
refresh_on_jwterror_invalid(jwterror) ==
    Raise("InvalidTokenError", "Invalid refresh token")

\* except JWTError, in refresh_access_token
refresh_on_jwterror(jwterror) ==
    IF ContainsExpired(jwterror)
    THEN Raise("TokenExpiredError", "Refresh token has expired")
    ELSE Raise("InvalidTokenError", "Invalid refresh token")

\* Variant: the type tag is not examined.
refresh_type_ok_any(payload) == TRUE

\* payload.get("type") != "refresh"
refresh_type_ok(payload) == payload.type = "refresh"

\* Variant: the subject only has to exist.
refresh_user_ok_exists_only(user) == user # NoRow

\* not user or not user.is_active
refresh_user_ok(user) == ~(user = NoRow \/ ~user.is_active)

refresh_access_token(us, token, t) ==
    LET dec == decode_token(token, t) IN
    IF ~dec.ok
    THEN refresh_on_jwterror(dec.jwterror)
    ELSE IF ~refresh_type_ok(dec.payload)
    THEN Raise("InvalidTokenError", "Invalid token type")
    ELSE IF dec.payload.sub = NoSub
    THEN Raise("InvalidTokenError", "Invalid token payload")
    ELSE IF ~UuidWellFormed(dec.payload.sub)
    THEN Raise("ValueError", "badly formed hexadecimal UUID string")
    ELSE LET user == get_by_id(us, dec.payload.sub) IN
         IF ~refresh_user_ok(user)
         THEN Raise("AuthenticationError", "User not found or inactive")
         ELSE LET token_data == [sub |-> StrOfUuid(user.id)] IN
              Res("none", "",
                  {create_access_token(token_data, t), create_refresh_token(token_data, t)},
                  NoTok, user.id)

\* get_by_id converts a str id with uuid.UUID before it queries.
get_user_profile(us, user_id) ==
    IF ~UuidWellFormed(user_id)
    THEN Raise("ValueError", "badly formed hexadecimal UUID string")
    ELSE LET user == get_by_id(us, user_id) IN
         IF user = NoRow
         THEN Raise("UserNotFoundError", "User not found")
         ELSE Res("none", "", {}, NoTok, user.id)

\* Variant: the handler looks for "signature" in the text of the error.
validate_on_jwterror_signature(jwterror) ==
    IF jwterror \in {SigExpired, SigFailed}
    THEN Raise("TokenExpiredError", "Token has expired")
    ELSE Raise("InvalidTokenError", "Invalid token")

\* except JWTError, in validate_token
validate_on_jwterror(jwterror) ==
    IF ContainsExpired(jwterror)
    THEN Raise("TokenExpiredError", "Token has expired")
    ELSE Raise("InvalidTokenError", "Invalid token")

\* Variant: the type tag is not examined.
validate_type_ok_any(payload) == TRUE

\* payload.get("type") != "access"
validate_type_ok(payload) == payload.type = "access"

\* t is the clock when the token is decoded, t2 the clock read by the
\* engine's own expiry comparison that follows.
validate_token(token, t, t2) ==
    LET dec == decode_token(token, t) IN
    IF ~dec.ok
    THEN validate_on_jwterror(dec.jwterror)
    ELSE IF ~validate_type_ok(dec.payload)
    THEN Raise("InvalidTokenError", "Invalid token type")
    ELSE IF dec.payload.exp # 0 /\ dec.payload.exp < t2
    THEN Raise("TokenExpiredError", "Token has expired")
    ELSE Res("none", "", {}, dec.payload, NoUser)

(* ----------------------------- dependencies ---------------------------- *)

\* Variant: the dependency leaves the is_active test to its caller.
get_current_user_any_user(us, token, t) ==
    LET dec == jwt_decode(token, t) IN
    IF ~dec.ok
    THEN Raise("AuthenticationError", "Invalid token")
    ELSE IF dec.payload.sub = NoSub
    THEN Raise("AuthenticationError", "Invalid token")
    ELSE IF ~UuidWellFormed(dec.payload.sub)
    THEN Raise("ValueError", "badly formed hexadecimal UUID string")
    ELSE LET user == get_by_id(us, dec.payload.sub) IN
         IF user = NoRow
         THEN Raise("AuthenticationError", "User not found")
         ELSE Res("none", "", {}, NoTok, user.id)

get_current_user(us, token, t) ==
    LET dec == jwt_decode(token, t) IN
    IF ~dec.ok
    THEN Raise("AuthenticationError", "Invalid token")
    ELSE IF dec.payload.sub = NoSub
    THEN Raise("AuthenticationError", "Invalid token")
    ELSE IF ~UuidWellFormed(dec.payload.sub)
    THEN Raise("ValueError", "badly formed hexadecimal UUID string")
    ELSE LET user == get_by_id(us, dec.payload.sub) IN
         IF user = NoRow
         THEN Raise("AuthenticationError", "User not found")
         ELSE IF ~user.is_active
         THEN Raise("AuthenticationError", "User is inactive")
         ELSE Res("none", "", {}, NoTok, user.id)

\* get_current_active_user: the 400 "Inactive user" answer, or the user.
get_current_active_user(us, current) ==
    IF current.err # "none"
    THEN current
    ELSE IF ~get_by_id(us, StrOfUuid(current.user)).is_active
    THEN Raise("HTTPException400", "Inactive user")
    ELSE current

(* ------------------------------ transport ------------------------------ *)

\* An endpoint's answer: an engine error kind goes through
\* get_http_exception; anything else that escapes is the server's 500.
endpoint_response(res, success_status) ==
    IF res.err = "none"
    THEN [status |-> success_status, detail |-> "", header |-> ""]
    ELSE IF res.err \in AuthServiceException
    THEN get_http_exception([kind |-> res.err, msg |-> res.msg])
    ELSE IF res.err = "HTTPException400"
    THEN [status |-> 400, detail |-> res.msg, header |-> ""]
    ELSE [status |-> 500, detail |-> "Internal Server Error", header |-> ""]

(* -------------------------------- state -------------------------------- *)
\* users   the users table, rows in insertion order
\* req     the register_user calls in flight, one per request slot
\* now     the clock
\* issued  every token the engine has handed out
\* last    the engine call that returned in the latest step, if any

IdleReq == [pc |-> "idle", email |-> "", username |-> "", password |-> "",
            err |-> "none", msg |-> ""]

\* id is the identifier a call was given, reuse whether the token presented
\* had just been refreshed with.
NoCall == [op |-> "none", tok |-> NoTok, email |-> "", password |-> "", at |-> 0,
           id |-> NoSub, reuse |-> FALSE,
           err |-> "none", msg |-> "", minted |-> {}, payload |-> NoTok,
           user |-> NoUser, http |-> NoHttp]

Call(op, tok, email, password, at, res, http) ==
    [op |-> op, tok |-> tok, email |-> email, password |-> password, at |-> at,
     id |-> NoSub, reuse |-> FALSE,
     err |-> res.err, msg |-> res.msg, minted |-> res.minted,
     payload |-> res.payload, user |-> res.user, http |-> http]

\* The user_data dictionaries passed to UserRepository.update.
UpdateInputs ==
    {[email |-> "a@x.com"], [email |-> "b@x.com"],
     [username |-> "alice"], [username |-> "bob"],
     [is_active |-> TRUE], [role |-> "admin"]}

\* Tokens a caller can present: the ones handed out, and tokens whose
\* signature does not verify (forged or tampered), whatever they claim.
Forged ==
    {[sub |-> StrOfUuid(1), type |-> ty, exp |-> e, sig |-> "bad"] :
        ty \in {"access", "refresh"}, e \in {0, MaxTime + refresh_token_expire}}

TokenInputs == issued \cup Forged

Init ==
    /\ users = <<>>
    /\ req = [p \in Procs |-> IdleReq]
    /\ now = 0
    /\ issued = {}
    /\ last = NoCall

(* ---------------------- register_user, step by step -------------------- *)

\* POST /auth/register arrives; first await: exists_by_email.
RegCheckEmail(p, user_data) ==
    /\ req[p].pc \in {"idle", "done"}
    /\ req' = [req EXCEPT ![p] =
                 IF exists_by_email(users, user_data.email)
                 THEN [pc |-> "done", email |-> user_data.email,
                       username |-> user_data.username,
                       password |-> user_data.password,
                       err |-> "UserAlreadyExistsError",
                       msg |-> "User with this email already exists"]
                 ELSE [pc |-> "check_username", email |-> user_data.email,
                       username |-> user_data.username,
                       password |-> user_data.password,
                       err |-> "none", msg |-> ""]]
    /\ last' = NoCall
    /\ UNCHANGED <<users, now, issued>>

\* second await: exists_by_username.
RegCheckUsername(p) ==
    /\ req[p].pc = "check_username"
    /\ req' = [req EXCEPT ![p] =
                 IF exists_by_username(users, req[p].username)
                 THEN [@ EXCEPT !.pc = "done", !.err = "UserAlreadyExistsError",
                                !.msg = "User with this username already exists"]
                 ELSE [@ EXCEPT !.pc = "create"]]
    /\ last' = NoCall
    /\ UNCHANGED <<users, now, issued>>

\* hash the password, then UserRepository.create: add, commit, refresh.
\* register_user has no handler around it: what the commit raises escapes.
RegCreate(p) ==
    /\ req[p].pc = "create"
    /\ Len(users) < MaxUsers
    /\ \E salt \in Salts :
          LET user_dict == [email |-> req[p].email,
                            username |-> req[p].username,
                            hashed_password |-> hash_password(req[p].password, salt),
                            is_active |-> TRUE]
              made == create(users, user_dict)
          IN /\ users' = made.users
             /\ req' = [req EXCEPT ![p] =
                          IF made.ok
                          THEN [@ EXCEPT !.pc = "done"]
                          ELSE [@ EXCEPT !.pc = "done", !.err = "IntegrityError",
                                         !.msg = "duplicate key value violates unique constraint"]]
    /\ last' = NoCall
    /\ UNCHANGED <<now, issued>>

(* ----------------------------- engine calls ---------------------------- *)

Room(minted) == Cardinality(issued \cup minted) <= 2 * MaxPairs

\* Variant: a refused login locks the account.
Login_lockout(email, password) ==
    LET res == login_user(users, email, password, now)
        user == get_by_email(users, email)
    IN /\ Room(res.minted)
       /\ issued' = issued \cup res.minted
       /\ users' = IF res.err # "none" /\ user # NoRow
                    THEN delete(users, user.id).users
                    ELSE users
       /\ last' = Call("login", NoTok, email, password, now, res, endpoint_response(res, 200))
       /\ UNCHANGED <<req, now>>

Login(email, password) ==
    LET res == login_user(users, email, password, now) IN
    /\ Room(res.minted)
    /\ issued' = issued \cup res.minted
    /\ last' = Call("login", NoTok, email, password, now, res, endpoint_response(res, 200))
    /\ UNCHANGED <<users, req, now>>

\* The call before this one was a refresh that succeeded with this token.
RefreshedWith(token) ==
    last.op = "refresh" /\ last.err = "none" /\ last.tok = token

\* Variant: rotation retires the token it was given.
Refresh_single_use(token) ==
    LET res == IF RefreshedWith(token)
               THEN Raise("InvalidTokenError", "Invalid token")
               ELSE refresh_access_token(users, token, now)
    IN /\ Room(res.minted)
       /\ issued' = issued \cup res.minted
       /\ last' = [Call("refresh", token, "", "", now, res, endpoint_response(res, 200))
                     EXCEPT !.reuse = RefreshedWith(token)]
       /\ UNCHANGED <<users, req, now>>

Refresh(token) ==
    LET res == refresh_access_token(users, token, now) IN
    /\ Room(res.minted)
    /\ issued' = issued \cup res.minted
    /\ last' = [Call("refresh", token, "", "", now, res, endpoint_response(res, 200))
                  EXCEPT !.reuse = RefreshedWith(token)]
    /\ UNCHANGED <<users, req, now>>

\* The clock may move between the decode and the engine's own comparison.
Validate(token, t2) ==
    LET res == validate_token(token, now, t2) IN
    /\ now' = t2
    /\ last' = Call("validate", token, "", "", now, res, NoHttp)
    /\ UNCHANGED <<users, req, issued>>

\* Identifiers a caller can ask the profile of: well-formed ones, stored or
\* not, and a string that is no identifier.
ProfileIds == {StrOfUuid(i) : i \in UserIds} \cup {[kind |-> "text", val |-> 0]}

GetProfile(user_id) ==
    LET res == get_user_profile(users, user_id) IN
    /\ last' = [Call("profile", NoTok, "", "", now, res, NoHttp) EXCEPT !.id = user_id]
    /\ UNCHANGED <<users, req, now, issued>>

\* GET /auth/me: get_current_user, then get_current_active_user.
Me(token) ==
    LET current == get_current_user(users, token, now)
        res == get_current_active_user(users, current)
    IN /\ last' = Call("me", token, "", "", now, res, endpoint_response(res, 200))
       /\ UNCHANGED <<users, req, now, issued>>

(* --------------------------- store and clock --------------------------- *)

\* The call returns True when the row was found, False otherwise.
Deactivate(id) ==
    LET done == delete(users, id) IN
    /\ users' = done.users
    /\ last' = [Call("delete", NoTok, "", "", now,
                     Res("none", "", {}, NoTok, IF done.ok THEN id ELSE NoUser), NoHttp)
                  EXCEPT !.id = StrOfUuid(id)]
    /\ UNCHANGED <<req, now, issued>>

Update(id, user_data) ==
    /\ users' = update(users, id, user_data).users
    /\ last' = NoCall
    /\ UNCHANGED <<req, now, issued>>

Tick ==
    /\ now < MaxTime
    /\ now' = now + 1
    /\ last' = NoCall
    /\ UNCHANGED <<users, req, issued>>

\* The service, registrations arriving one at a time.
Next ==
    \/ \E p \in Slots, d \in SeqRegInputs : RegCheckEmail(p, d)
    \/ \E p \in Slots : RegCheckUsername(p)
    \/ \E p \in Slots : RegCreate(p)
    \/ \E e \in Emails, pw \in Passwords : Login(e, pw)
    \/ \E tok \in TokenInputs : Refresh(tok)
    \/ \E tok \in TokenInputs, t2 \in {now, now + 1} : t2 <= MaxTime /\ Validate(tok, t2)
    \/ \E tok \in TokenInputs : Me(tok)
    \/ \E sid \in ProfileIds : GetProfile(sid)
    \/ \E id \in UserIds : Deactivate(id)
    \/ Tick

Spec == Init /\ [][Next]_vars

\* Concurrent registrations against the store: every interleaving of the
\* awaits of the register_user calls in flight, and deactivations.
NextReg ==
    \/ \E p \in Procs, d \in RegInputs : RegCheckEmail(p, d)
    \/ \E p \in Procs : RegCheckUsername(p)
    \/ \E p \in Procs : RegCreate(p)
    \/ \E id \in UserIds : Deactivate(id)

SpecReg == Init /\ [][NextReg]_vars

\* The repository on its own: registrations one at a time, and the two
\* operations that change a stored row.
NextRepo ==
    \/ \E p \in Slots, d \in SeqRegInputs : RegCheckEmail(p, d)
    \/ \E p \in Slots : RegCheckUsername(p)
    \/ \E p \in Slots : RegCreate(p)
    \/ \E id \in UserIds : Deactivate(id)
    \/ \E id \in UserIds, d \in UpdateInputs : Update(id, d)

SpecRepo == Init /\ [][NextRepo]_vars

(* ================================ claims =============================== *)

\* What the store holds, read off the rows themselves.
EmailTaken(email) == \E i \in 1..Len(users) : users[i].email = email
UsernameTaken(username) == \E i \in 1..Len(users) : users[i].username = username

Succeeded(p) == req[p].pc = "done" /\ req[p].err = "none"
EmailMsg == "User with this email already exists"
UsernameMsg == "User with this username already exists"

\* C1: of the register_user calls that carry the same email, whatever the
\* interleaving of their three awaits, at most one succeeds, and the store
\* never holds two rows with the same email.
C1_AtMostOnePerEmail ==
    /\ \A i, j \in 1..Len(users) : i # j => users[i].email # users[j].email
    /\ \A p, q \in Procs :
          (p # q /\ Succeeded(p) /\ Succeeded(q)) => req[p].email # req[q].email

\* Two calls with one email raced: both passed both checks, one insert was
\* committed and the other was refused by the store.
C1_Witness ==
    \E p, q \in Procs :
       /\ p # q
       /\ req[p].email = req[q].email
       /\ Succeeded(p)
       /\ req[q].pc = "done" /\ req[q].err = "IntegrityError"
       /\ Len(users) = 1

\* C2: a register_user call whose insert the store's unique constraint
\* refuses, after it passed both existence checks, fails with
\* UserAlreadyExistsError and with no other error kind.
C2_RejectedInsertIsUserAlreadyExists ==
    \A p \in Procs :
       (req[p].pc = "done" /\ req[p].err # "none") =>
          req[p].err = "UserAlreadyExistsError"

\* C9: a register_user call fails with UserAlreadyExistsError when the email
\* or the username is in the store; the email is looked up first and is the
\* failure reported when both are taken; a failing check leaves the store as
\* it was.
C9_ChecksInOrder ==
    [][\A p \in Procs :
         /\ (req[p].pc \in {"idle", "done"} /\ req'[p] # req[p]) =>
               /\ users' = users
               /\ IF EmailTaken(req'[p].email)
                  THEN /\ req'[p].pc = "done"
                       /\ req'[p].err = "UserAlreadyExistsError"
                       /\ req'[p].msg = EmailMsg
                  ELSE req'[p].pc = "check_username" /\ req'[p].err = "none"
         /\ (req[p].pc = "check_username" /\ req'[p] # req[p]) =>
               /\ users' = users
               /\ IF UsernameTaken(req[p].username)
                  THEN /\ req'[p].pc = "done"
                       /\ req'[p].err = "UserAlreadyExistsError"
                       /\ req'[p].msg = UsernameMsg
                  ELSE req'[p].pc = "create" /\ req'[p].err = "none"
      ]_vars

\* A call found both its email and its username taken, and reported the email.
C9_Witness ==
    \E p \in Procs :
       /\ req[p].pc = "done"
       /\ req[p].err = "UserAlreadyExistsError"
       /\ req[p].msg = EmailMsg
       /\ EmailTaken(req[p].email)
       /\ UsernameTaken(req[p].username)

\* The token of the latest call, as the caller's clock saw it.
SignedOk(tok) == tok.sig = "ok"
ExpiredAt(tok, t) == tok.exp < t
\* The subject of the token is a stored, active user.
SubjectActive(tok) ==
    \E i \in 1..Len(users) : users[i].id = tok.sub.val /\ users[i].is_active
SubjectDeactivated(tok) ==
    \E i \in 1..Len(users) : users[i].id = tok.sub.val /\ ~users[i].is_active

\* C3: an operation that consumes a token accepts it only when the token's
\* type tag is the one the operation is for: /auth/me and validate_token an
\* access token, refresh_access_token a refresh token.
C3_TypeTagMatchesOperation ==
    /\ (last.op = "me" /\ last.err = "none") => last.tok.type = "access"
    /\ (last.op = "validate" /\ last.err = "none") => last.tok.type = "access"
    /\ (last.op = "refresh" /\ last.err = "none") => last.tok.type = "refresh"

\* C4: a refresh_access_token call with a validly signed, unexpired refresh
\* token whose subject is deactivated, or is not in the store, fails with
\* AuthenticationError and mints nothing.
C4_RefreshAfterDeactivation ==
    (/\ last.op = "refresh"
     /\ SignedOk(last.tok)
     /\ ~ExpiredAt(last.tok, last.at)
     /\ last.tok.type = "refresh"
     /\ ~SubjectActive(last.tok))
    => (last.err = "AuthenticationError" /\ last.minted = {})

\* A refresh token handed out while its subject was active is presented
\* after the subject was deactivated, before the token expires.
C4_Witness ==
    /\ last.op = "refresh"
    /\ last.tok \in issued
    /\ last.tok.type = "refresh"
    /\ ~ExpiredAt(last.tok, last.at)
    /\ SubjectDeactivated(last.tok)
    /\ last.err = "AuthenticationError"

\* C5, as stated: every token whose type tag is access, presented to
\* refresh_access_token, fails with InvalidTokenError and yields no pair.
C5_AccessTokenAlwaysInvalid ==
    (last.op = "refresh" /\ last.tok.type = "access")
    => (last.err = "InvalidTokenError" /\ last.minted = {})

\* C5, amended: an access token presented to refresh_access_token never
\* yields a pair; it fails with InvalidTokenError, except that a validly
\* signed access token that has expired fails with TokenExpiredError.
C5_AccessTokenRejected ==
    (last.op = "refresh" /\ last.tok.type = "access")
    => /\ last.minted = {}
       /\ IF SignedOk(last.tok) /\ ExpiredAt(last.tok, last.at)
          THEN last.err = "TokenExpiredError"
          ELSE last.err = "InvalidTokenError"

\* A live access token of an active user is presented to refresh.
C5_Witness ==
    /\ last.op = "refresh"
    /\ last.tok \in issued
    /\ last.tok.type = "access"
    /\ ~ExpiredAt(last.tok, last.at)
    /\ SubjectActive(last.tok)
    /\ last.err = "InvalidTokenError"

\* C6, as stated: every token whose type tag is refresh, presented to
\* validate_token, fails with InvalidTokenError and returns no claims.
C6_RefreshTokenAlwaysInvalid ==
    (last.op = "validate" /\ last.tok.type = "refresh")
    => (last.err = "InvalidTokenError" /\ last.payload = NoTok)

\* C6, amended: a refresh token presented to validate_token never returns
\* claims; it fails with InvalidTokenError, except that a validly signed
\* refresh token that has expired fails with TokenExpiredError.
C6_RefreshTokenRejected ==
    (last.op = "validate" /\ last.tok.type = "refresh")
    => /\ last.payload = NoTok
       /\ IF SignedOk(last.tok) /\ ExpiredAt(last.tok, last.at)
          THEN last.err = "TokenExpiredError"
          ELSE last.err = "InvalidTokenError"

\* A live refresh token of an active user is presented to validate_token.
C6_Witness ==
    /\ last.op = "validate"
    /\ last.tok \in issued
    /\ last.tok.type = "refresh"
    /\ ~ExpiredAt(last.tok, last.at)
    /\ SubjectActive(last.tok)
    /\ last.err = "InvalidTokenError"

\* C7: a token whose signature does not verify fails validate_token and
\* refresh_access_token with InvalidTokenError whatever its expires_at, so
\* TokenExpiredError is reported only for a token whose signature verifies.
C7_SignatureBeforeExpiry ==
    last.op \in {"validate", "refresh"} =>
       /\ ~SignedOk(last.tok) => last.err = "InvalidTokenError"
       /\ last.err = "TokenExpiredError" => SignedOk(last.tok)

\* A badly signed token whose expires_at is in the past was validated.
C7_Witness ==
    /\ last.op = "validate"
    /\ ~SignedOk(last.tok)
    /\ ExpiredAt(last.tok, last.at)
    /\ last.err = "InvalidTokenError"

\* C8: a validly signed token whose expires_at is in the past when it is
\* presented fails validate_token and refresh_access_token with
\* TokenExpiredError: no result, no other error kind.
C8_ExpiredIsTokenExpired ==
    (/\ last.op \in {"validate", "refresh"}
     /\ SignedOk(last.tok)
     /\ ExpiredAt(last.tok, last.at))
    => /\ last.err = "TokenExpiredError"
       /\ last.minted = {}
       /\ last.payload = NoTok

\* A refresh token that was handed out has expired and is presented to
\* refresh_access_token while its subject is still active.
C8_Witness ==
    /\ last.op = "refresh"
    /\ last.tok \in issued
    /\ last.tok.type = "refresh"
    /\ ExpiredAt(last.tok, last.at)
    /\ SubjectActive(last.tok)
    /\ last.err = "TokenExpiredError"

\* What a caller of /auth/login observes of a call.
Observable(res) ==
    [err |-> res.err, msg |-> res.msg, minted |-> res.minted,
     http |-> endpoint_response(res, 200)]

UnknownEmail(email) == ~EmailTaken(email)
ActiveWithOtherPassword(email, password) ==
    \E i \in 1..Len(users) :
       /\ users[i].email = email
       /\ users[i].is_active
       /\ users[i].hashed_password.pw # password
InactiveEmail(email) ==
    \E i \in 1..Len(users) : users[i].email = email /\ ~users[i].is_active

\* C10: a login with an email that is not in the store and a login with an
\* active user's email and a wrong password are answered identically (error
\* kind AuthenticationError, message, status, header); a login for an
\* inactive user is rejected with AuthenticationError too.
C10_FailuresIndistinguishable ==
    /\ \A e1, e2 \in Emails, p1, p2 \in Passwords :
          (UnknownEmail(e1) /\ ActiveWithOtherPassword(e2, p2)) =>
             /\ Observable(login_user(users, e1, p1, now))
                   = Observable(login_user(users, e2, p2, now))
             /\ login_user(users, e1, p1, now).err = "AuthenticationError"
    /\ (last.op = "login"
          /\ (UnknownEmail(last.email)
                \/ ActiveWithOtherPassword(last.email, last.password)
                \/ InactiveEmail(last.email)))
       => (last.err = "AuthenticationError" /\ last.minted = {}
             /\ last.http.status = 401 /\ last.http.header = "Bearer")

\* A login with a wrong password for an active user was refused while
\* another email is still unknown to the store.
C10_Witness ==
    /\ last.op = "login"
    /\ ActiveWithOtherPassword(last.email, last.password)
    /\ \E e \in Emails : UnknownEmail(e)
    /\ last.err = "AuthenticationError"


\* The row stored under this email holds the digest of this password.
RightPassword(email, password) ==
    \E i \in 1..Len(users), salt \in Salts :
       /\ users[i].email = email
       /\ users[i].hashed_password = hash_password(password, salt)

\* C11: a login_user call for a deactivated user fails with
\* AuthenticationError and issues no tokens, the password being right or
\* wrong; so does a login with a stored email and a wrong password.
C11_DeactivatedCannotLogin ==
    (last.op = "login"
       /\ (InactiveEmail(last.email)
             \/ (EmailTaken(last.email) /\ ~RightPassword(last.email, last.password))))
    => /\ last.err = "AuthenticationError"
       /\ last.minted = {}

\* A deactivated user logged in with the email and the password of the
\* registration and was refused.
C11_Witness ==
    /\ last.op = "login"
    /\ InactiveEmail(last.email)
    /\ RightPassword(last.email, last.password)
    /\ last.err = "AuthenticationError"


\* Exactly one access token and one refresh token, both with this subject.
PairFor(minted, sub) ==
    /\ Cardinality(minted) = 2
    /\ \E a, r \in minted : a.type = "access" /\ r.type = "refresh"
    /\ \A t \in minted : t.sub = sub /\ SignedOk(t)

\* C12: a successful login_user returns one access and one refresh token
\* whose subject is the id of the user stored under the email given; a
\* successful refresh_access_token returns such a pair with the subject of
\* the refresh token presented. No call returns a token of another user.
C12_TokensBoundToUser ==
    /\ (last.op = "login" /\ last.err = "none") =>
          /\ PairFor(last.minted, StrOfUuid(last.user))
          /\ \E i \in 1..Len(users) :
                users[i].id = last.user /\ users[i].email = last.email
    /\ (last.op = "refresh" /\ last.err = "none") =>
          PairFor(last.minted, last.tok.sub)
    /\ last.err # "none" => last.minted = {}

\* With two users stored, the second one refreshed and got a pair of its own.
C12_Witness ==
    /\ last.op = "refresh"
    /\ last.err = "none"
    /\ Len(users) = 2
    /\ last.tok.sub = StrOfUuid(2)
    /\ PairFor(last.minted, StrOfUuid(2))


\* C13: a stored user's email and username never change: every step of
\* register_user, UserRepository.update and UserRepository.delete leaves
\* each row with the email and the username it had.
C13_EmailUsernameImmutable ==
    [][\A i \in 1..Len(users) :
          /\ i <= Len(users')
          /\ users'[i].id = users[i].id
          /\ users'[i].email = users[i].email
          /\ users'[i].username = users[i].username
      ]_vars


\* The exceptions handed to get_http_exception: the six kinds of the engine,
\* the base class itself, and messages as the engine and the store word them.
ExcKinds == AuthServiceException \cup {"AuthServiceException"}
ExcMessages ==
    {"Invalid email or password", "User account is inactive", "Invalid token type",
     "Refresh token has expired", "User not found", EmailMsg,
     "duplicate key value violates unique constraint"}

TableStatus(kind) ==
    CASE kind \in {"AuthenticationError", "InvalidTokenError", "TokenExpiredError"} -> 401
      [] kind = "AuthorizationError" -> 403
      [] kind = "UserAlreadyExistsError" -> 409
      [] kind = "UserNotFoundError" -> 404
      [] OTHER -> 500
TableHeader(kind) ==
    IF kind \in {"AuthenticationError", "InvalidTokenError", "TokenExpiredError"}
    THEN "Bearer" ELSE ""

\* C14: get_http_exception answers every exception with the status and the
\* header of the table, and with a message that is fixed for the kind: the
\* same whatever the text of the exception raised. The answers the endpoints
\* give for an engine error are those.
C14_ErrorTable ==
    /\ \A kind \in ExcKinds, msg \in ExcMessages :
          LET h == get_http_exception([kind |-> kind, msg |-> msg]) IN
          /\ h.status = TableStatus(kind)
          /\ h.header = TableHeader(kind)
          /\ \A other \in ExcMessages :
                get_http_exception([kind |-> kind, msg |-> other]).detail = h.detail
    /\ (last.op \in {"login", "refresh", "me"} /\ last.err \in AuthServiceException) =>
          /\ last.http.status = TableStatus(last.err)
          /\ last.http.header = TableHeader(last.err)
          /\ last.http.detail
                = get_http_exception([kind |-> last.err, msg |-> ""]).detail

\* POST /auth/refresh answered an expired refresh token: 401, Bearer, and a
\* message that is not the one the engine raised.
C14_Witness ==
    /\ last.op = "refresh"
    /\ last.err = "TokenExpiredError"
    /\ last.http.status = 401
    /\ last.http.header = "Bearer"
    /\ last.http.detail # last.msg


\* C15: rotation does not retire the refresh token it was given: a refresh
\* with a genuine, unexpired refresh token of an active user succeeds, also
\* when the call before it was a successful refresh with that same token, and
\* every issued refresh token keeps being accepted in every later state in
\* which it is unexpired and its subject is active.
C15_RefreshTokenReusable ==
    /\ (last.op = "refresh"
          /\ SignedOk(last.tok)
          /\ last.tok.type = "refresh"
          /\ ~ExpiredAt(last.tok, last.at)
          /\ SubjectActive(last.tok))
       => /\ last.err = "none"
          /\ PairFor(last.minted, last.tok.sub)
    /\ \A tok \in issued :
          (tok.type = "refresh" /\ ~ExpiredAt(tok, now) /\ SubjectActive(tok))
          => refresh_access_token(users, tok, now).err = "none"

\* A refresh succeeded with the token the refresh before it had succeeded with.
C15_Witness ==
    /\ last.op = "refresh"
    /\ last.reuse
    /\ last.tok \in issued
    /\ last.err = "none"
    /\ last.minted # {}

\* The row a successful registration stored: its email, its username and the
\* digest of its password.
StoredFor(p, i) ==
    /\ users[i].email = req[p].email
    /\ users[i].username = req[p].username
    /\ \E salt \in Salts :
          users[i].hashed_password = hash_password(req[p].password, salt)

\* A login with the email of row i and the password it was registered with
\* succeeds with a token pair for the id of that row.
LoginSucceedsFor(i, password) ==
    LET res == login_user(users, users[i].email, password, now) IN
    /\ res.err = "none"
    /\ res.user = users[i].id
    /\ PairFor(res.minted, StrOfUuid(users[i].id))

\* C16: after register_user(email, username, p) has succeeded, the store
\* holds a row for it; a row is created active; and while the row is active,
\* login_user with its email and the password it was registered with
\* succeeds and returns tokens whose subject is the id of that row.
C16_RegisteredCanLogin ==
    /\ [](\A p \in Slots : Succeeded(p) => \E i \in 1..Len(users) : StoredFor(p, i))
    /\ [](\A i \in 1..Len(users), password \in Passwords :
             (users[i].is_active
                /\ \E salt \in Salts :
                      users[i].hashed_password = hash_password(password, salt))
             => LoginSucceedsFor(i, password))
    /\ []((last.op = "login"
             /\ ~InactiveEmail(last.email)
             /\ RightPassword(last.email, last.password))
          => /\ last.err = "none"
             /\ last.minted \subseteq issued
             /\ \E i \in 1..Len(users) :
                   /\ users[i].email = last.email
                   /\ last.user = users[i].id
                   /\ PairFor(last.minted, StrOfUuid(users[i].id)))
    /\ [][Len(users') > Len(users) => users'[Len(users')].is_active]_vars

\* A user whose registration succeeded logged in at a later time with the
\* registered email and password and received tokens for the stored id.
C16_Witness ==
    /\ last.op = "login"
    /\ last.err = "none"
    /\ last.at > 0
    /\ \E p \in Slots, i \in 1..Len(users) :
          /\ Succeeded(p)
          /\ StoredFor(p, i)
          /\ req[p].email = last.email
          /\ req[p].password = last.password
          /\ last.user = users[i].id
          /\ PairFor(last.minted, StrOfUuid(users[i].id))

EngineReads == {"login", "refresh", "validate", "profile", "me"}

\* Registration p stored its row in this step: one row more, the rows that
\* were there unchanged, the new row carrying the email and username given.
RegisteredInStep(p) ==
    /\ req[p].pc = "create"
    /\ req'[p].pc = "done"
    /\ req'[p].err = "none"
    /\ Len(users') = Len(users) + 1
    /\ SubSeq(users', 1, Len(users)) = users
    /\ users'[Len(users')].email = req[p].email
    /\ users'[Len(users')].username = req[p].username

\* C17: login_user (and the authenticate_user inside it),
\* refresh_access_token, validate_token, get_user_profile and the /auth/me
\* dependency leave the user store unchanged, whether they succeed or fail;
\* a step of register_user changes the store only when it succeeds, and then
\* it adds exactly one row and changes no existing row.
C17_EngineFrame ==
    [][/\ last'.op \in EngineReads => users' = users
       /\ \A p \in Slots :
             req'[p] # req[p]
             => \/ users' = users /\ ~(req'[p].pc = "done" /\ req'[p].err = "none")
                \/ RegisteredInStep(p)
       /\ (users' # users /\ last'.op # "delete")
          => \E p \in Slots : RegisteredInStep(p)]_vars

\* A login with a wrong password for a stored user was refused and the user
\* is still active.
C17_Witness ==
    /\ last.op = "login"
    /\ last.err = "AuthenticationError"
    /\ ActiveWithOtherPassword(last.email, last.password)
    /\ Len(users) >= 2

InactiveUsername(username) ==
    \E i \in 1..Len(users) : users[i].username = username /\ ~users[i].is_active

\* The step is a delete(id) that kept every row and changed at most the
\* is_active flag of the row with that id, returning whether it was there.
SoftDeleteStep ==
    LET id == last'.id.val IN
    /\ Len(users') = Len(users)
    /\ \A i \in 1..Len(users) :
          users'[i] = IF users[i].id = id
                      THEN [users[i] EXCEPT !.is_active = FALSE]
                      ELSE users[i]
    /\ IF \E i \in 1..Len(users) : users[i].id = id
       THEN last'.user = id
       ELSE last'.user = NoUser /\ users' = users

\* C18: UserRepository.delete(id) never removes a row: it sets is_active to
\* False on the row with that id and returns True, or returns False and
\* leaves the store unchanged when there is no such row; no step makes the
\* store shorter or changes a stored id; a deactivated user's email and
\* username stay taken, and a register_user that checks either of them
\* afterwards fails with UserAlreadyExistsError.
C18_SoftDelete ==
    /\ [][/\ last'.op = "delete" => SoftDeleteStep
          /\ Len(users') >= Len(users)
          /\ \A i \in 1..Len(users) : users'[i].id = users[i].id
          /\ \A p \in Procs :
                (req'[p] # req[p] /\ req[p].pc \in {"idle", "done"}
                   /\ InactiveEmail(req'[p].email))
                => /\ req'[p].pc = "done"
                   /\ req'[p].err = "UserAlreadyExistsError"
          /\ \A p \in Procs :
                (req'[p] # req[p] /\ req[p].pc = "check_username"
                   /\ InactiveUsername(req[p].username))
                => /\ req'[p].pc = "done"
                   /\ req'[p].err = "UserAlreadyExistsError"]_vars
    /\ [](\A i \in 1..Len(users) :
             ~users[i].is_active
             => /\ exists_by_email(users, users[i].email)
                /\ exists_by_username(users, users[i].username))

\* delete found its user among several, returned True, and the row is still
\* stored, inactive, with its email and username taken.
C18_Witness ==
    /\ last.op = "delete"
    /\ last.user # NoUser
    /\ Len(users) >= 2
    /\ \E i \in 1..Len(users) :
          /\ users[i].id = last.user
          /\ ~users[i].is_active
          /\ exists_by_email(users, users[i].email)
          /\ exists_by_username(users, users[i].username)

RefreshErrors == {"InvalidTokenError", "TokenExpiredError", "AuthenticationError"}

\* C19: get_user_profile(id) fails with UserNotFoundError for every id that
\* matches no stored user, a string that is no well-formed identifier
\* included, and with nothing else; refresh_access_token fails only with
\* InvalidTokenError, TokenExpiredError or AuthenticationError.
C19_ClosedErrorSet ==
    /\ (last.op = "profile"
          /\ ~\E i \in 1..Len(users) : StrOfUuid(users[i].id) = last.id)
       => last.err = "UserNotFoundError"
    /\ (last.op = "profile" /\ last.err # "none")
       => last.err = "UserNotFoundError"
    /\ (last.op = "refresh" /\ last.err # "none")
       => last.err \in RefreshErrors

\* C20: the 400 "Inactive user" branch of get_current_active_user is never
\* taken: every user get_current_user returns is active, and a request to
\* /auth/me with a genuine, unexpired token of a deactivated user is answered
\* through AuthenticationError with status 401, never with 400.
C20_InactiveBranchUnreachable ==
    /\ last.op = "me" => (last.err # "HTTPException400" /\ last.http.status # 400)
    /\ (last.op = "me"
          /\ SignedOk(last.tok)
          /\ ~ExpiredAt(last.tok, last.at)
          /\ SubjectDeactivated(last.tok))
       => /\ last.err = "AuthenticationError"
          /\ last.http.status = 401
    /\ \A token \in TokenInputs :
          LET current == get_current_user(users, token, now) IN
          current.err = "none"
          => /\ get_by_id(users, StrOfUuid(current.user)).is_active
             /\ get_current_active_user(users, current) = current

\* A deactivated user called /auth/me with an unexpired token of their own
\* and was answered 401.
C20_Witness ==
    /\ last.op = "me"
    /\ last.tok \in issued
    /\ ~ExpiredAt(last.tok, last.at)
    /\ SubjectDeactivated(last.tok)
    /\ last.err = "AuthenticationError"
    /\ last.msg = "User is inactive"
    /\ last.http.status = 401
====
